---- MODULE Spec2Model ----
(***************************************************************************)
(* Model of .github/scripts/bump_version.py: one run of main() after the   *)
(* other against a manifest file (pyproject.toml) and a git repository     *)
(* whose answers are the environment's choice.  Text is kept as strings    *)
(* and the regular expressions are evaluated character by character.       *)
(***************************************************************************)
EXTENDS Integers, Sequences, FiniteSets, TLC

(***************************************************************************)
(* Bounds of the model.                                                    *)
(***************************************************************************)
MaxRuns == 2

(***************************************************************************)
(* Characters and numbers.                                                 *)
(***************************************************************************)
Ch(s, i) == SubSeq(s, i, i)

Digits == <<"0", "1", "2", "3", "4", "5", "6", "7", "8", "9">>

DigitSet == {Digits[k] : k \in 1..10}

SpaceSet == {" ", "\t", "\n", "\r", "\f"}

DigitVal(c) == (CHOOSE k \in 1..10 : Digits[k] = c) - 1

RECURSIVE IntOf(_)
IntOf(s) ==
    IF Len(s) = 0 THEN 0
    ELSE 10 * IntOf(SubSeq(s, 1, Len(s) - 1)) + DigitVal(Ch(s, Len(s)))

RECURSIVE StrOf(_)
StrOf(n) ==
    IF n < 10 THEN Digits[n + 1]
    ELSE StrOf(n \div 10) \o Digits[(n % 10) + 1]

RECURSIVE Strip(_)
Strip(s) ==
    IF Len(s) = 0 THEN s
    ELSE IF Ch(s, 1) \in SpaceSet THEN Strip(SubSeq(s, 2, Len(s)))
    ELSE IF Ch(s, Len(s)) \in SpaceSet THEN Strip(SubSeq(s, 1, Len(s) - 1))
    ELSE s

(***************************************************************************)
(* Regular-expression pieces.  A position is an index into the string; 0   *)
(* stands for "no match".  Each piece takes the position where it starts   *)
(* and gives the position just after what it consumed.                     *)
(***************************************************************************)
Lit(s, i, lit) ==
    IF i # 0 /\ i + Len(lit) - 1 <= Len(s) /\ SubSeq(s, i, i + Len(lit) - 1) = lit
    THEN i + Len(lit)
    ELSE 0

RECURSIVE Star(_, _, _)
Star(s, i, class) ==
    IF i = 0 THEN 0
    ELSE IF i <= Len(s) /\ Ch(s, i) \in class THEN Star(s, i + 1, class)
    ELSE i

Plus(s, i, class) ==
    IF i # 0 /\ i <= Len(s) /\ Ch(s, i) \in class THEN Star(s, i + 1, class) ELSE 0

Opt(s, i, lit) == IF Lit(s, i, lit) # 0 THEN Lit(s, i, lit) ELSE i

LineStart(s, i) == IF i = 1 \/ (i > 1 /\ Ch(s, i - 1) = "\n") THEN i ELSE 0

\* the positions at which a search of s tries a match
Starts(s) == 1..(Len(s) + 1)

\* a search reports the leftmost start position that matches, 0 when none does
Leftmost(starts) ==
    IF starts = {} THEN 0 ELSE CHOOSE i \in starts : \A j \in starts : i <= j

\* str.find: the leftmost index of sub in s, 0 when absent
Find(s, sub) == Leftmost({i \in Starts(s) : Lit(s, i, sub) # 0})

\* str.replace(old, new, 1)
ReplaceFirst(s, old, new) ==
    LET at == Find(s, old)
    IN  IF at = 0 THEN s
        ELSE SubSeq(s, 1, at - 1) \o new \o SubSeq(s, at + Len(old), Len(s))

(***************************************************************************)
(* Module constants of the script.                                         *)
(***************************************************************************)
DefaultFileThreshold == 10

DefaultLineThreshold == 500

\* values the environment variables FILE_THRESHOLD, LINE_THRESHOLD can give
FileThresholds == {DefaultFileThreshold, -1}

LineThresholds == {DefaultLineThreshold, 41}

\* Python's None, as a value no stripped git output equals
None == "<None>"

NoError == [type |-> "none", cmd |-> "", cause |-> 0]

\* a _run_git_command that lets a failed command pass with empty output
run_git_command_unchecked(args, proc) ==
    [raised |-> FALSE,
     value |-> IF proc.returncode # 0 THEN "" ELSE Strip(proc.stdout),
     error |-> NoError]

(***************************************************************************)
(* _run_git_command: proc is what the git subprocess did, its return code  *)
(* and its standard output.  check_output raises CalledProcessError on a   *)
(* non-zero return code, which is wrapped into a RuntimeError that carries *)
(* the command line and the original failure.                              *)
(***************************************************************************)
run_git_command(args, proc) ==
    IF proc.returncode # 0
    THEN [raised |-> TRUE, value |-> None,
          error |-> [type |-> "RuntimeError", cmd |-> "git " \o args,
                     cause |-> proc.returncode]]
    ELSE [raised |-> FALSE, value |-> Strip(proc.stdout), error |-> NoError]

\* the candidates tried in the other order
CandidatesSwapped == <<"HEAD^", "HEAD^1">>

\* the candidates of _determine_parent_commit, in the order they are tried
Candidates == <<"HEAD^1", "HEAD^">>

(***************************************************************************)
(* _collect_diff_stats, from the output of git diff --shortstat on.        *)
(***************************************************************************)
FilesEnd(s, i) == Lit(s, Opt(s, Lit(s, Plus(s, i, DigitSet), " file"), "s"), " changed")

InsertEnd(s, i) == Lit(s, Opt(s, Lit(s, Plus(s, i, DigitSet), " insertion"), "s"), "(+)")

DeleteEnd(s, i) == Lit(s, Opt(s, Lit(s, Plus(s, i, DigitSet), " deletion"), "s"), "(-)")

FilesSearch(s) == Leftmost({i \in Starts(s) : FilesEnd(s, i) # 0})

InsertSearch(s) == Leftmost({i \in Starts(s) : InsertEnd(s, i) # 0})

DeleteSearch(s) == Leftmost({i \in Starts(s) : DeleteEnd(s, i) # 0})

\* int(match.group(1)) of a match of (\d+)<rest> at position at, 0 without a match
Group1Int(s, at) ==
    IF at = 0 THEN 0 ELSE IntOf(SubSeq(s, at, Star(s, at, DigitSet) - 1))

\* a _collect_diff_stats that leaves the deletions out of the total
collect_diff_stats_no_deletions(output) ==
    IF output = "" THEN <<0, 0>>
    ELSE <<Group1Int(output, FilesSearch(output)), Group1Int(output, InsertSearch(output))>>

collect_diff_stats(output) ==
    IF output = "" THEN <<0, 0>>
    ELSE LET files_changed == Group1Int(output, FilesSearch(output))
             insertions == Group1Int(output, InsertSearch(output))
             deletions == Group1Int(output, DeleteSearch(output))
         IN  <<files_changed, insertions + deletions>>

(***************************************************************************)
(* _extract_version: the first match of                                    *)
(*   (?m)^\s*version\s*=\s*"(\d+)\.(\d+)\.(\d+)"                           *)
(***************************************************************************)
VersionKeyEnd(s, i) ==
    Lit(s, Star(s, Lit(s, Star(s, Lit(s, Star(s, LineStart(s, i), SpaceSet),
        "version"), SpaceSet), "="), SpaceSet), "\"")

VersionEnd(s, i) ==
    Lit(s, Plus(s, Lit(s, Plus(s, Lit(s, Plus(s, VersionKeyEnd(s, i), DigitSet),
        "."), DigitSet), "."), DigitSet), "\"")

VersionSearch(s) == Leftmost({i \in Starts(s) : VersionEnd(s, i) # 0})

\* an _extract_version that falls back to 0.0.0 instead of raising
extract_version_default(content) ==
    LET at == VersionSearch(content)
        g1 == VersionKeyEnd(content, at)
        g2 == Star(content, g1, DigitSet) + 1
        g3 == Star(content, g2, DigitSet) + 1
        end == VersionEnd(content, at)
    IN  IF at = 0
        THEN [raised |-> FALSE, old_line |-> "", version |-> <<0, 0, 0>>]
        ELSE [raised |-> FALSE,
              old_line |-> SubSeq(content, at, end - 1),
              version |-> <<IntOf(SubSeq(content, g1, g2 - 2)),
                            IntOf(SubSeq(content, g2, g3 - 2)),
                            IntOf(SubSeq(content, g3, end - 2))>>]

extract_version(content) ==
    LET at == VersionSearch(content)
        g1 == VersionKeyEnd(content, at)
        g2 == Star(content, g1, DigitSet) + 1
        g3 == Star(content, g2, DigitSet) + 1
        end == VersionEnd(content, at)
    IN  IF at = 0
        THEN [raised |-> TRUE, old_line |-> "", version |-> <<0, 0, 0>>]
        ELSE [raised |-> FALSE,
              old_line |-> SubSeq(content, at, end - 1),
              version |-> <<IntOf(SubSeq(content, g1, g2 - 2)),
                            IntOf(SubSeq(content, g2, g3 - 2)),
                            IntOf(SubSeq(content, g3, end - 2))>>]

(***************************************************************************)
(* _apply_new_version: re.sub of "(\d+\.\d+\.\d+)" in old_line, count=1,   *)
(* then content.replace(old_line, new_line, 1).                            *)
(***************************************************************************)
QuotedEnd(s, i) ==
    Lit(s, Plus(s, Lit(s, Plus(s, Lit(s, Plus(s, Lit(s, i, "\""), DigitSet),
        "."), DigitSet), "."), DigitSet), "\"")

QuotedSearch(s) == Leftmost({i \in Starts(s) : QuotedEnd(s, i) # 0})

apply_new_version(content, old_line, new_version) ==
    LET at == QuotedSearch(old_line)
        new_line == IF at = 0 THEN old_line
                    ELSE SubSeq(old_line, 1, at - 1) \o "\"" \o new_version \o "\""
                         \o SubSeq(old_line, QuotedEnd(old_line, at), Len(old_line))
    IN  ReplaceFirst(content, old_line, new_line)

\* f"{major}.{minor}.{patch}"
FormatVersion(v) == StrOf(v[1]) \o "." \o StrOf(v[2]) \o "." \o StrOf(v[3])

\* a bump decision that compares with >= instead of >
BumpAtThreshold(v, files_changed, total_lines, file_threshold, line_threshold) ==
    IF files_changed >= file_threshold \/ total_lines >= line_threshold
    THEN [version |-> <<v[1], v[2] + 1, 0>>, bump_type |-> "minor"]
    ELSE [version |-> <<v[1], v[2], v[3] + 1>>, bump_type |-> "patch"]

\* a bump decision that wants both thresholds exceeded
BumpBothExceeded(v, files_changed, total_lines, file_threshold, line_threshold) ==
    IF files_changed > file_threshold /\ total_lines > line_threshold
    THEN [version |-> <<v[1], v[2] + 1, 0>>, bump_type |-> "minor"]
    ELSE [version |-> <<v[1], v[2], v[3] + 1>>, bump_type |-> "patch"]

\* a bump decision whose patch branch forgets the increment
BumpPatchForgotten(v, files_changed, total_lines, file_threshold, line_threshold) ==
    IF files_changed > file_threshold \/ total_lines > line_threshold
    THEN [version |-> <<v[1], v[2] + 1, 0>>, bump_type |-> "minor"]
    ELSE [version |-> <<v[1], v[2], v[3]>>, bump_type |-> "patch"]

\* lines 93-99 of main: the bump decision
Bump(v, files_changed, total_lines, file_threshold, line_threshold) ==
    IF files_changed > file_threshold \/ total_lines > line_threshold
    THEN [version |-> <<v[1], v[2] + 1, 0>>, bump_type |-> "minor"]
    ELSE [version |-> <<v[1], v[2], v[3] + 1>>, bump_type |-> "patch"]

\* an empty-diff test that looks at the wrong sign of the line count
NoDiffWrongTest(files_changed, total_lines) == files_changed = 0 /\ total_lines < 0

\* line 83 of main: the empty-diff test
NoDiff(files_changed, total_lines) == files_changed = 0 /\ total_lines = 0

(***************************************************************************)
(* The environment: what the manifest holds and what git answers.          *)
(***************************************************************************)
Manifests ==
    { "[project]\nname = \"duck\"\nversion = \"1.2.3\"\n",
      "version=\"0.9.9\"",
      "tool_version = \"1.2.3\"\nversion = \"1.2.3\"\n",
      "min_version = \"2.0.0\"\n\n  version  =  \"01.02.09\"  # v\n",
      "\nversion = \"1.2.3\"\nversion = \"1.2.3\"\n",
      "[project]\nname = \"duck\"\n",
      "#version = \"1.2.3\"\nversion = \"1.2\"\n" }

\* a clause that the shortstat line does not have
Absent == -1

FileCounts == {1, 3, 10, 15}

InsertCounts == {1, 40, 500}

DeleteCounts == {1, 5}

Clause(n, noun, sign) ==
    IF n = Absent THEN <<>>
    ELSE <<StrOf(n) \o " " \o noun \o (IF n = 1 THEN "" ELSE "s") \o sign>>

RECURSIVE Join(_)
Join(parts) ==
    IF Len(parts) = 0 THEN ""
    ELSE IF Len(parts) = 1 THEN parts[1]
    ELSE parts[1] \o ", " \o Join(Tail(parts))

\* the line git diff --shortstat prints for the given clauses
Shortstat(f, i, d) ==
    LET parts == Clause(f, "file", " changed") \o Clause(i, "insertion", "(+)")
                 \o Clause(d, "deletion", "(-)")
    IN  IF Len(parts) = 0 THEN "" ELSE " " \o Join(parts) \o "\n"

\* outcomes of git rev-parse: a revision, nothing, or a failure
RevParseProcs ==
    { [returncode |-> 0, stdout |-> "4b825dc642cb\n"],
      [returncode |-> 0, stdout |-> "\n"],
      [returncode |-> 128, stdout |-> ""] }

(***************************************************************************)
(* State.  manifest0, clauses, gitLog, reads and writes record the run's   *)
(* history; the others are the variables of main().                        *)
(***************************************************************************)
VARIABLES fileExists, manifest, FILE_THRESHOLD, LINE_THRESHOLD, run, pc, cand,
          parent, stats, parsed, bumped, old_version, new_version, outcome,
          exit, error, gitLog, clauses, reads, writes, manifest0

vars == <<fileExists, manifest, FILE_THRESHOLD, LINE_THRESHOLD, run, pc, cand,
          parent, stats, parsed, bumped, old_version, new_version, outcome,
          exit, error, gitLog, clauses, reads, writes, manifest0>>

locals == <<cand, parent, stats, parsed, bumped, old_version, new_version>>

\* the process has not exited
Running == -1

FreshRun ==
    /\ pc = "start"
    /\ cand = 1
    /\ parent = None
    /\ stats = <<>>
    /\ parsed = <<>>
    /\ bumped = <<>>
    /\ old_version = ""
    /\ new_version = ""
    /\ outcome = "none"
    /\ exit = Running
    /\ error = NoError
    /\ gitLog = <<>>
    /\ clauses = <<>>
    /\ reads = 0
    /\ writes = 0

Init ==
    /\ \/ fileExists = FALSE /\ manifest = ""
       \/ fileExists = TRUE /\ manifest \in Manifests
    /\ FILE_THRESHOLD \in FileThresholds
    /\ LINE_THRESHOLD \in LineThresholds
    /\ run = 1
    /\ manifest0 = manifest
    /\ FreshRun

Return(status, what) ==
    /\ exit' = status
    /\ outcome' = what
    /\ pc' = "done"

\* lines 73-75: the manifest must exist
CheckManifest ==
    /\ pc = "start"
    /\ IF ~fileExists
       THEN Return(0, "no_manifest")
       ELSE pc' = "rev" /\ UNCHANGED <<exit, outcome>>
    /\ UNCHANGED <<fileExists, manifest, FILE_THRESHOLD, LINE_THRESHOLD, run, locals,
                   error, gitLog, clauses, reads, writes, manifest0>>

\* lines 24-31 and 77-80: one turn of the loop of _determine_parent_commit
RevParse ==
    /\ pc = "rev"
    /\ \E proc \in RevParseProcs :
         LET args == "rev-parse " \o Candidates[cand]
             r == run_git_command(args, proc)
         IN  /\ gitLog' = Append(gitLog, [cmd |-> "git " \o args,
                                          returncode |-> proc.returncode,
                                          stdout |-> proc.stdout])
             /\ IF ~r.raised /\ r.value # ""
                THEN /\ parent' = r.value
                     /\ pc' = "diff"
                     /\ UNCHANGED <<cand, exit, outcome>>
                ELSE IF cand < Len(Candidates)
                THEN /\ cand' = cand + 1
                     /\ UNCHANGED <<parent, pc, exit, outcome>>
                ELSE /\ Return(0, "no_parent")
                     /\ UNCHANGED <<cand, parent>>
    /\ UNCHANGED <<fileExists, manifest, FILE_THRESHOLD, LINE_THRESHOLD, run, stats,
                   parsed, bumped, old_version, new_version, error, clauses, reads,
                   writes, manifest0>>

\* lines 34-56 and 82-85: git diff --shortstat and the empty-diff test
CollectDiff ==
    /\ pc = "diff"
    /\ \E proc \in [returncode : {0, 128}, f : FileCounts \cup {Absent},
                    i : InsertCounts \cup {Absent}, d : DeleteCounts \cup {Absent}] :
         LET args == "diff --shortstat " \o parent \o "..HEAD"
             out == Shortstat(proc.f, proc.i, proc.d)
             r == run_git_command(args, [returncode |-> proc.returncode, stdout |-> out])
             s == collect_diff_stats(r.value)
         IN  /\ proc.returncode # 0 => proc.f = Absent /\ proc.i = Absent /\ proc.d = Absent
             /\ gitLog' = Append(gitLog, [cmd |-> "git " \o args,
                                          returncode |-> proc.returncode,
                                          stdout |-> out])
             /\ clauses' = <<proc.f, proc.i, proc.d>>
             /\ IF r.raised
                THEN /\ error' = r.error
                     /\ Return(1, "fatal")
                     /\ UNCHANGED stats
                ELSE /\ stats' = s
                     /\ error' = error
                     /\ IF NoDiff(s[1], s[2])
                        THEN Return(0, "no_diff")
                        ELSE pc' = "bump" /\ UNCHANGED <<exit, outcome>>
    /\ UNCHANGED <<fileExists, manifest, FILE_THRESHOLD, LINE_THRESHOLD, run, cand,
                   parent, parsed, bumped, old_version, new_version, reads, writes,
                   manifest0>>

\* lines 89-115: read the manifest, decide the bump, substitute and write
BumpVersion ==
    /\ pc = "bump"
    /\ reads' = reads + 1
    /\ LET content == manifest
           e == extract_version(content)
           b == Bump(e.version, stats[1], stats[2], FILE_THRESHOLD, LINE_THRESHOLD)
           old == FormatVersion(e.version)
           new == FormatVersion(b.version)
           new_content == apply_new_version(content, e.old_line, new)
       IN  IF e.raised
           THEN /\ error' = [type |-> "ValueError", cmd |-> "", cause |-> 0]
                /\ Return(1, "fatal")
                /\ UNCHANGED <<parsed, bumped, old_version, new_version, manifest, writes>>
           ELSE /\ parsed' = e.version
                /\ bumped' = b.version
                /\ old_version' = old
                /\ new_version' = new
                /\ error' = error
                /\ IF new = old
                   THEN Return(0, "same_version") /\ UNCHANGED <<manifest, writes>>
                   ELSE IF new_content = content
                   THEN Return(0, "unchanged") /\ UNCHANGED <<manifest, writes>>
                   ELSE /\ manifest' = new_content
                        /\ writes' = writes + 1
                        /\ Return(0, "written")
    /\ UNCHANGED <<fileExists, FILE_THRESHOLD, LINE_THRESHOLD, run, cand, parent, stats,
                   gitLog, clauses, manifest0>>

\* the script is started again (a later CI job), with its environment read anew
NextRun ==
    /\ pc = "done"
    /\ run < MaxRuns
    /\ run' = run + 1
    /\ FILE_THRESHOLD' \in FileThresholds
    /\ LINE_THRESHOLD' \in LineThresholds
    /\ manifest0' = manifest
    /\ pc' = "start"
    /\ cand' = 1
    /\ parent' = None
    /\ stats' = <<>>
    /\ parsed' = <<>>
    /\ bumped' = <<>>
    /\ old_version' = ""
    /\ new_version' = ""
    /\ outcome' = "none"
    /\ exit' = Running
    /\ error' = NoError
    /\ gitLog' = <<>>
    /\ clauses' = <<>>
    /\ reads' = 0
    /\ writes' = 0
    /\ UNCHANGED <<fileExists, manifest>>

Next == CheckManifest \/ RevParse \/ CollectDiff \/ BumpVersion \/ NextRun

Spec == Init /\ [][Next]_vars

(***************************************************************************)
(* Properties.                                                             *)
(***************************************************************************)
\* the manifests of the environment that hold no version assignment
NoVersionManifests ==
    { "[project]\nname = \"duck\"\n",
      "#version = \"1.2.3\"\nversion = \"1.2\"\n" }

Val(n) == IF n = Absent THEN 0 ELSE n

IsRevParse(e) == SubSeq(e.cmd, 1, 13) = "git rev-parse"

IsDiff(e) == SubSeq(e.cmd, 1, 8) = "git diff"

\* the command gave a non-empty revision
Resolves(e) == e.returncode = 0 /\ e.stdout \notin {"", "\n"}

RevParses == SelectSeq(gitLog, IsRevParse)

\* C1: a run that reaches the bump decision with files_changed <= FILE_THRESHOLD
\* and total_lines <= LINE_THRESHOLD computes (major, minor, patch + 1); a value
\* equal to its threshold is a patch bump; 1.2.3 with 3 files and 45 lines under
\* the default thresholds gives "1.2.4".
PatchBumpWithinThresholds ==
    /\ (bumped # <<>> /\ stats[1] <= FILE_THRESHOLD /\ stats[2] <= LINE_THRESHOLD)
          => bumped = <<parsed[1], parsed[2], parsed[3] + 1>>
    /\ (bumped # <<>> /\ parsed = <<1, 2, 3>> /\ clauses = <<3, 40, 5>>
          /\ FILE_THRESHOLD = DefaultFileThreshold
          /\ LINE_THRESHOLD = DefaultLineThreshold)
          => new_version = "1.2.4"

PatchBumpAtBothThresholds ==
    /\ outcome = "written"
    /\ stats = <<FILE_THRESHOLD, LINE_THRESHOLD>>
    /\ bumped[3] = parsed[3] + 1

\* C2: a run that reaches the bump decision with files_changed > FILE_THRESHOLD
\* or total_lines > LINE_THRESHOLD (one of them is enough) computes
\* (major, minor + 1, 0).
MinorBumpAboveEitherThreshold ==
    (bumped # <<>> /\ (stats[1] > FILE_THRESHOLD \/ stats[2] > LINE_THRESHOLD))
        => bumped = <<parsed[1], parsed[2] + 1, 0>>

MinorBumpOnFilesAlone ==
    /\ outcome = "written"
    /\ stats[1] > FILE_THRESHOLD
    /\ stats[2] <= LINE_THRESHOLD
    /\ parsed[3] > 0
    /\ bumped[2] = parsed[2] + 1

\* C3: when a run writes the manifest, the new content is the old content with
\* only the quoted X.Y.Z of the assignment that _extract_version matched
\* replaced by the new version; every other character is preserved.
OnlyMatchedVersionRewritten ==
    outcome = "written" =>
        LET at == VersionSearch(manifest0)
            open == VersionKeyEnd(manifest0, at)
            close == VersionEnd(manifest0, at) - 1
        IN  manifest = SubSeq(manifest0, 1, open - 1) \o new_version
                       \o SubSeq(manifest0, close, Len(manifest0))

\* C4: a run that reaches the parse step on a manifest without a version
\* assignment ends in a fatal error and writes nothing; every run that ends in
\* a fatal error leaves the manifest as it was at the start of the run.
MissingVersionFatalNoWrite ==
    /\ (reads > 0 /\ manifest0 \in NoVersionManifests)
          => exit = 1 /\ outcome = "fatal" /\ error.type = "ValueError"
             /\ writes = 0 /\ manifest = manifest0
    /\ exit = 1 => writes = 0 /\ manifest = manifest0

MissingVersionRun ==
    /\ pc = "done"
    /\ reads = 1
    /\ manifest0 \in NoVersionManifests
    /\ error.type = "ValueError"

\* C5: a run with a missing manifest, no resolved parent or DiffStats (0, 0)
\* exits with status 0 and never writes; a run with an empty diff after a run
\* that bumped the version leaves the manifest as the first run wrote it.
NothingToDoExitsZeroNoWrite ==
    (pc = "done" /\ (~fileExists \/ (exit # 1 /\ parent = None) \/ stats = <<0, 0>>))
        => /\ exit = 0
           /\ outcome \in {"no_manifest", "no_parent", "no_diff"}
           /\ reads = 0
           /\ writes = 0
           /\ manifest = manifest0

EmptyDiffAfterBump ==
    /\ run = 2
    /\ manifest0 \notin Manifests
    /\ pc = "done"
    /\ stats = <<0, 0>>
    /\ outcome = "no_diff"

\* C6, as stated: every failed git command, rev-parse or diff --shortstat, is
\* the last git command of the run and ends the run with the error that
\* carries it.
EveryGitFailureFatal ==
    \A k \in 1..Len(gitLog) :
        gitLog[k].returncode # 0
            => /\ k = Len(gitLog)
               /\ exit = 1
               /\ error = [type |-> "RuntimeError", cmd |-> gitLog[k].cmd,
                           cause |-> gitLog[k].returncode]

\* C6, amended: a failed git diff --shortstat is the last git command of the
\* run and ends the run with a RuntimeError that carries the command and the
\* original failure, with no write; a failed git rev-parse is caught: it is
\* never the error of the run, the same candidate is not tried again, and
\* right after it the run is still going or has returned 0.
DiffFailureFatalRevParseFailureCaught ==
    \A k \in 1..Len(gitLog) :
        gitLog[k].returncode # 0
            => IF IsDiff(gitLog[k])
               THEN /\ k = Len(gitLog)
                    /\ pc = "done"
                    /\ exit = 1
                    /\ error = [type |-> "RuntimeError", cmd |-> gitLog[k].cmd,
                                cause |-> gitLog[k].returncode]
                    /\ writes = 0
               ELSE /\ error.cmd # gitLog[k].cmd
                    /\ \A j \in 1..Len(gitLog) : j # k => gitLog[j].cmd # gitLog[k].cmd
                    /\ k = Len(gitLog) => exit \in {Running, 0}

DiffFailedAfterRevParseFailed ==
    /\ Len(gitLog) = 3
    /\ gitLog[1].returncode # 0
    /\ gitLog[3].returncode # 0
    /\ exit = 1

\* C7: rev-parse is tried on HEAD^1 first and on HEAD^ only when HEAD^1 failed
\* or gave nothing; the parent is the first revision that resolved; when
\* neither resolves the run exits 0 with no diff command, no read and no write
\* of the manifest.
ParentCandidatesInOrder ==
    /\ Len(RevParses) <= 2
    /\ Len(RevParses) >= 1 => /\ gitLog[1].cmd = "git rev-parse HEAD^1"
                              /\ Resolves(gitLog[1]) => parent = "4b825dc642cb"
    /\ Len(RevParses) = 2 => /\ gitLog[2].cmd = "git rev-parse HEAD^"
                             /\ ~Resolves(gitLog[1])
                             /\ Resolves(gitLog[2]) => parent = "4b825dc642cb"
    /\ parent # None => \E k \in 1..Len(RevParses) : Resolves(gitLog[k])
    /\ \A k \in 1..Len(gitLog) :
          IsDiff(gitLog[k]) => k = Len(RevParses) + 1 /\ Resolves(gitLog[k - 1])
    /\ (Len(RevParses) = 2 /\ ~Resolves(gitLog[2]))
          => /\ pc = "done"
             /\ exit = 0
             /\ Len(gitLog) = 2
             /\ reads = 0
             /\ writes = 0
             /\ manifest = manifest0

NeitherCandidateResolves ==
    /\ outcome = "no_parent"
    /\ Len(gitLog) = 2
    /\ gitLog[1].returncode # 0
    /\ gitLog[2].returncode = 0

\* C8: for a shortstat line built from any subset of the three clauses,
\* _collect_diff_stats gives (N, M + K) with 0 for an absent clause, (0, 0) for
\* the empty output; a line with a file count alone gives (N, 0), which is not
\* an empty diff and leads to a bump.
ShortstatClausesCounted ==
    /\ stats # <<>>
          => stats = <<Val(clauses[1]), Val(clauses[2]) + Val(clauses[3])>>
    /\ (pc = "done" /\ stats # <<>> /\ clauses[1] # Absent
          /\ clauses[2] = Absent /\ clauses[3] = Absent
          /\ manifest0 \notin NoVersionManifests)
          => outcome = "written" /\ stats[2] = 0

FilesOnlyDiffBumps ==
    /\ outcome = "written"
    /\ clauses = <<15, Absent, Absent>>
    /\ stats = <<15, 0>>

\* C9: the computed version string always differs from the current one and the
\* substituted content always differs from the original, so neither no-op
\* guard after the parse is taken: a run that parses a version writes once.
ParsedVersionAlwaysWritten ==
    /\ outcome \notin {"same_version", "unchanged"}
    /\ parsed # <<>>
          => /\ new_version # old_version
             /\ writes = 1
             /\ manifest # manifest0
             /\ outcome = "written"

WrittenUnderNegativeThreshold ==
    /\ parsed # <<>>
    /\ FILE_THRESHOLD < 0
    /\ writes = 1
    /\ new_version # old_version

\* C10: after a run that writes the manifest, _extract_version of the written
\* manifest gives the version the run computed, which is greater than the
\* version parsed before with the same major component.
WrittenVersionReadsBack ==
    outcome = "written"
        => /\ ~extract_version(manifest).raised
           /\ extract_version(manifest).version = bumped
           /\ bumped[1] = parsed[1]
           /\ \/ bumped[2] > parsed[2]
              \/ bumped[2] = parsed[2] /\ bumped[3] > parsed[3]

====
